---------------------------- MODULE Spec2Model ----------------------------
(***************************************************************************)
(* Model of run-task.py: the supervisor that starts the external coding    *)
(* assistant as a subprocess, drains its stream-json output in a reader    *)
(* thread (parse_stream_line), polls it every 5 seconds (timeout,          *)
(* heartbeats), and reconciles the final result once the subprocess ends   *)
(* (three-tier extraction, output file, registry, terminal notification,   *)
(* crash handler, PID file cleanup).                                       *)
(*                                                                         *)
(* Time is a simulated clock in seconds: it advances only where the code   *)
(* sleeps or waits (time.sleep(5), proc.wait(timeout=10),                  *)
(* read_thread.join(timeout=5)).                                           *)
(***************************************************************************)
EXTENDS Integers, Sequences, FiniteSets, TLC

(***************************************************************************)
(* JSON values, as json.loads returns them.  Every value carries its type  *)
(* tag, so that a .get() on a value that is not a dict, a string method on *)
(* a value that is not a str, or an addition of a value that is not a      *)
(* number can be told apart: these are the calls that raise.               *)
(***************************************************************************)
JNull == [t |-> "null"]
JStr(s) == [t |-> "str", s |-> s]
JNum(n) == [t |-> "num", n |-> n]
JArr(a) == [t |-> "arr", a |-> a]
JObj(o) == [t |-> "obj", o |-> o]
EmptyObj == JObj(<<>>)

\* dict.get(key, default)
Get(d, key, default) == IF key \in DOMAIN d.o THEN d.o[key] ELSE default

\* Python truthiness of a value
Truthy(v) ==
  CASE v.t = "null" -> FALSE
    [] v.t = "str" -> v.s # ""
    [] v.t = "num" -> v.n # 0
    [] v.t = "arr" -> Len(v.a) > 0
    [] v.t = "obj" -> DOMAIN v.o # {}

(***************************************************************************)
(* str methods used by the code.                                           *)
(***************************************************************************)
LowerChar(c) ==
  CASE c = "A" -> "a" [] c = "B" -> "b" [] c = "C" -> "c" [] c = "D" -> "d"
    [] c = "E" -> "e" [] c = "F" -> "f" [] c = "G" -> "g" [] c = "H" -> "h"
    [] c = "I" -> "i" [] c = "J" -> "j" [] c = "K" -> "k" [] c = "L" -> "l"
    [] c = "M" -> "m" [] c = "N" -> "n" [] c = "O" -> "o" [] c = "P" -> "p"
    [] c = "Q" -> "q" [] c = "R" -> "r" [] c = "S" -> "s" [] c = "T" -> "t"
    [] c = "U" -> "u" [] c = "V" -> "v" [] c = "W" -> "w" [] c = "X" -> "x"
    [] c = "Y" -> "y" [] c = "Z" -> "z" [] OTHER -> c

RECURSIVE str_lower(_)
\* s.lower()
str_lower(s) == IF s = "" THEN "" ELSE LowerChar(Head(s)) \o str_lower(Tail(s))

\* sub in s
str_contains(sub, s) ==
  \E i \in 1..(Len(s) - Len(sub) + 1) : SubSeq(s, i, i + Len(sub) - 1) = sub

RECURSIVE split_last(_)
\* s.split("/")[-1]
split_last(s) == IF str_contains("/", s) THEN split_last(Tail(s)) ELSE s

\* s[:n]
str_take(s, n) == SubSeq(s, 1, IF Len(s) < n THEN Len(s) ELSE n)

(***************************************************************************)
(* Activity descriptors (state["last_activity"]).  The empty descriptor is *)
(* the empty string of the code; every other one is a non-empty string     *)
(* built from a fixed text, the tool name and an argument.                 *)
(***************************************************************************)
Act(k, name, arg) == [k |-> k, name |-> name, arg |-> arg]
NoActivity == Act("", JNull, JNull)

\* The progress state dict as main() creates it (lines 364-372).
InitState(now_) ==
  [tool_calls |-> 0, files_written |-> <<>>, last_activity |-> NoActivity,
   session_id |-> JNull, last_event_time |-> now_, output_tokens |-> 0,
   chunks_since_heartbeat |-> 0]

\* The outcome of a block of code: the state it leaves and whether an
\* exception left it.
Ok(st) == [st |-> st, raised |-> FALSE]
Raise(st) == [st |-> st, raised |-> TRUE]

(***************************************************************************)
(* parse_stream_line, lines 202-278.                                       *)
(***************************************************************************)
\* if "output_tokens" in usage: state["output_tokens"] += usage["output_tokens"]
add_usage(usage, st) ==
  CASE usage.t = "obj" ->
         IF "output_tokens" \in DOMAIN usage.o
         THEN LET v == usage.o["output_tokens"] IN
              IF v.t = "num"
              THEN Ok([st EXCEPT !.output_tokens = @ + v.n])
              ELSE Raise(st)                          \* TypeError: int += str
         ELSE Ok(st)
    [] usage.t = "arr" ->                             \* list membership, then list["..."]
         IF \E i \in 1..Len(usage.a) : usage.a[i] = JStr("output_tokens")
         THEN Raise(st) ELSE Ok(st)
    [] usage.t = "str" ->                             \* substring test, then str["..."]
         IF str_contains("output_tokens", usage.s) THEN Raise(st) ELSE Ok(st)
    [] OTHER -> Raise(st)                             \* TypeError: not iterable

\* lines 226-244: the content block events, top-level or inside the envelope
content_events(inner, inner_type, st) ==
  CASE inner_type = JStr("content_block_start") ->
         LET cb == Get(inner, "content_block", EmptyObj) IN
         IF cb.t # "obj" THEN Raise(st)               \* AttributeError: .get
         ELSE IF Get(cb, "type", JNull) = JStr("tool_use")
         THEN Ok([st EXCEPT !.last_activity =
                     Act("starting", Get(cb, "name", JStr("?")), JNull)])
         ELSE IF Get(cb, "type", JNull) = JStr("thinking")
         THEN Ok([st EXCEPT !.last_activity = Act("thinking", JNull, JNull)])
         ELSE Ok(st)
    [] inner_type = JStr("content_block_delta") ->
         LET s1 == [st EXCEPT !.chunks_since_heartbeat = @ + 1]
             delta == Get(inner, "delta", EmptyObj) IN
         IF delta.t # "obj" THEN Raise(s1)            \* AttributeError: .get
         ELSE IF Get(delta, "type", JNull) = JStr("thinking_delta")
         THEN Ok([s1 EXCEPT !.last_activity = Act("thinking", JNull, JNull)])
         ELSE IF Get(delta, "type", JNull) = JStr("text_delta")
         THEN Ok([s1 EXCEPT !.last_activity = Act("writing", JNull, JNull)])
         ELSE Ok(s1)
    [] inner_type = JStr("message_delta") ->
         add_usage(Get(inner, "usage", EmptyObj), st)
    [] OTHER -> Ok(st)

\* lines 254-272: one block of an assistant message's content
tool_block(block, st) ==
  IF block.t # "obj" THEN Raise(st)                   \* AttributeError: .get
  ELSE IF Get(block, "type", JNull) # JStr("tool_use") THEN Ok(st)
  ELSE
    LET s1 == [st EXCEPT !.tool_calls = @ + 1]
        tool_name == Get(block, "name", JStr("?"))
        tool_input == Get(block, "input", EmptyObj)
    IN
    IF tool_name.t # "str" THEN Raise(s1)             \* AttributeError: .lower
    ELSE LET low == str_lower(tool_name.s) IN
      IF low \in {"write", "edit"} THEN
        IF tool_input.t # "obj" THEN Raise(s1)
        ELSE LET fp == Get(tool_input, "file_path", JStr("?")) IN
             IF fp.t # "str" THEN Raise(s1)           \* AttributeError: .split
             ELSE Ok([s1 EXCEPT
                        !.files_written = Append(@, split_last(fp.s)),
                        !.last_activity =
                           Act("edit", tool_name, JStr(split_last(fp.s)))])
      ELSE IF low = "read" THEN
        IF tool_input.t # "obj" THEN Raise(s1)
        ELSE LET fp == Get(tool_input, "file_path", JStr("?")) IN
             IF fp.t # "str" THEN Raise(s1)
             ELSE Ok([s1 EXCEPT !.last_activity =
                                   Act("read", JNull, JStr(split_last(fp.s)))])
      ELSE IF low = "bash" THEN
        IF tool_input.t # "obj" THEN Raise(s1)
        ELSE LET cmd == Get(tool_input, "command", JStr("?")) IN
             IF cmd.t = "str"
             THEN Ok([s1 EXCEPT !.last_activity =
                                   Act("bash", JNull, JStr(str_take(cmd.s, 50)))])
             ELSE IF cmd.t = "arr"
             THEN Ok([s1 EXCEPT !.last_activity =
                                   Act("bash", JNull,
                                       JArr(SubSeq(cmd.a, 1,
                                            IF Len(cmd.a) < 50 THEN Len(cmd.a) ELSE 50)))])
             ELSE Raise(s1)                           \* TypeError: not subscriptable
      ELSE IF str_contains("search", low) \/ str_contains("grep", low)
      THEN Ok([s1 EXCEPT !.last_activity = Act("search", tool_name, JNull)])
      ELSE Ok([s1 EXCEPT !.last_activity = Act("tool", tool_name, JNull)])

RECURSIVE tool_blocks(_, _)
\* for block in content (a list): stops at the first block that raises
tool_blocks(blocks, st) ==
  IF blocks = <<>> THEN Ok(st)
  ELSE LET r == tool_block(Head(blocks), st) IN
       IF r.raised THEN r ELSE tool_blocks(Tail(blocks), r.st)

\* lines 246-275
assistant_or_result(data, msg_type, st) ==
  IF msg_type = JStr("assistant") /\ "message" \in DOMAIN data.o THEN
    LET message == data.o["message"] IN
    IF message.t # "obj" THEN Raise(st)               \* AttributeError: .get
    ELSE
      LET u == add_usage(Get(message, "usage", EmptyObj), st) IN
      IF u.raised THEN u
      ELSE
        LET content == Get(message, "content", JArr(<<>>)) IN
        CASE content.t = "arr" -> tool_blocks(content.a, u.st)
          [] content.t = "str" ->                     \* iterates characters
               IF content.s = "" THEN u ELSE Raise(u.st)
          [] content.t = "obj" ->                     \* iterates keys
               IF DOMAIN content.o = {} THEN u ELSE Raise(u.st)
          [] OTHER -> Raise(u.st)                     \* TypeError: not iterable
  ELSE IF msg_type = JStr("result")
  THEN Ok([st EXCEPT !.last_activity = Act("finishing", JNull, JNull)])
  ELSE Ok(st)

\* A line of the stream: text that json.loads rejects, or a JSON value.
BadLine(txt) == [valid |-> FALSE, txt |-> txt, json |-> JNull]
JsonLine(v) == [valid |-> TRUE, txt |-> "", json |-> v]

\* parse_stream_line(line, state) at clock value now_: the state it leaves
\* and whether an exception other than JSONDecodeError and KeyError left it.
parse_stream_line(line, st, now_) ==
  IF ~line.valid THEN Ok(st)                          \* JSONDecodeError, caught
  ELSE
    LET data == line.json IN
    IF data.t # "obj" THEN Raise(st)                  \* AttributeError: .get
    ELSE
      LET msg_type == Get(data, "type", JStr(""))
          s1 == [st EXCEPT !.last_event_time = now_]
          inner == IF msg_type = JStr("stream_event")
                   THEN Get(data, "event", EmptyObj) ELSE data
      IN
      IF inner.t # "obj" THEN Raise(s1)               \* AttributeError: .get
      ELSE
        LET inner_type == IF msg_type = JStr("stream_event")
                          THEN Get(inner, "type", JStr("")) ELSE msg_type
            session_id == Get(data, "session_id", JNull)
            s2 == IF /\ msg_type = JStr("system")
                     /\ Get(data, "subtype", JNull) = JStr("init")
                     /\ Truthy(session_id)
                  THEN [s1 EXCEPT !.session_id = session_id] ELSE s1
            c == content_events(inner, inner_type, s2)
        IN
        IF c.raised THEN c ELSE assistant_or_result(data, msg_type, c.st)


RECURSIVE str_lstrip(_)
str_lstrip(s) ==
  IF s # "" /\ Head(s) \in {" ", "\t", "\n", "\r"} THEN str_lstrip(Tail(s)) ELSE s

RECURSIVE str_rstrip(_)
str_rstrip(s) ==
  IF s # "" /\ SubSeq(s, Len(s), Len(s)) \in {" ", "\t", "\n", "\r"}
  THEN str_rstrip(SubSeq(s, 1, Len(s) - 1)) ELSE s

\* line.strip() is empty: the reader skips the line (lines 382-383).  A line
\* that holds a JSON value is never empty.
IsBlank(line) == ~line.valid /\ str_lstrip(str_rstrip(line.txt)) = ""

(***************************************************************************)
(* format_tokens, lines 192-199.  f"{n/1000:.1f}" rounds the double        *)
(* nearest to n/1000 to one decimal: up when n mod 100 > 50, down when     *)
(* n mod 100 < 50, and at n mod 100 = 50 by the double's own error, which  *)
(* for 1000 <= n < 10000 rounds down exactly on HalfDown.                  *)
(***************************************************************************)
HalfDown ==
  {1150, 1250, 1450, 1650, 1950, 2050, 2150, 2250, 2550, 2650, 3050, 3150,
   3250, 3550, 3650, 4050, 4250, 4350, 4550, 4850, 5050, 5250, 5350, 5550,
   5850, 6050, 6250, 6350, 6550, 6850, 7050, 7250, 7350, 7550, 7850, 8250,
   8350, 8450, 8850, 8950, 9250, 9350, 9450, 9850, 9950}

\* the tenths cut off, not rounded
format_tokens_truncated(n) ==
  IF n < 1000 THEN ToString(n)
  ELSE IF n < 10000 THEN
    LET tenths == n \div 100
    IN ToString(tenths \div 10) \o "." \o ToString(tenths % 10) \o "K"
  ELSE ToString(n \div 1000) \o "K"

format_tokens(n) ==
  IF n < 1000 THEN ToString(n)
  ELSE IF n < 10000 THEN
    LET tenths == (n \div 100) +
                  (IF (n % 100 > 50) \/ (n % 100 = 50 /\ n \notin HalfDown)
                   THEN 1 ELSE 0)
    IN ToString(tenths \div 10) \o "." \o ToString(tenths % 10) \o "K"
  ELSE ToString(n \div 1000) \o "K"

\* fmt_duration, lines 67-72
fmt_duration(seconds) ==
  IF seconds < 60 THEN ToString(seconds) \o "s"
  ELSE ToString(seconds \div 60) \o "min"

RECURSIVE first_group_part(_, _)
\* for part in session_key.split(":"): if "@g.us" in part: return part
\* cur is the part being read, rest the text after it.
first_group_part(cur, rest) ==
  IF rest = "" THEN (IF str_contains("@g.us", cur) THEN cur ELSE "")
  ELSE IF Head(rest) = ":"
       THEN (IF str_contains("@g.us", cur) THEN cur
             ELSE first_group_part("", Tail(rest)))
       ELSE first_group_part(cur \o Head(rest), Tail(rest))

\* extract_group_jid, lines 143-150; "" stands for None.
extract_group_jid(session_key) ==
  IF session_key = "" THEN "" ELSE first_group_part("", session_key)

(***************************************************************************)
(* The heartbeat line, lines 405-429.                                      *)
(***************************************************************************)
HealthyBelow == 30
DegradedBelow == 120
StalledAbove == 120
ThinkingAbove == 15

\* the thinking line chosen on the idle gap alone
render_heartbeat_ignoring_chunks(st, now_, elapsed_) ==
  LET idle_secs == now_ - st.last_event_time IN
  [glyph |-> IF idle_secs < HealthyBelow THEN "green"
             ELSE IF idle_secs < DegradedBelow THEN "yellow" ELSE "red",
   mins |-> elapsed_ \div 60,
   tok |-> IF st.output_tokens > 0 THEN format_tokens(st.output_tokens) ELSE "",
   calls |-> IF st.tool_calls > 0 THEN st.tool_calls ELSE 0,
   line |-> IF idle_secs > StalledAbove THEN "stalled"
            ELSE IF idle_secs > ThinkingAbove
                 THEN "thinking"
            ELSE IF st.last_activity # NoActivity THEN "activity"
            ELSE "",
   idle |-> IF idle_secs > StalledAbove THEN idle_secs ELSE 0,
   activity |-> IF /\ ~(idle_secs > StalledAbove)
                   /\ ~(idle_secs > ThinkingAbove)
                THEN st.last_activity ELSE NoActivity,
   writing |-> /\ ~(idle_secs > StalledAbove)
               /\ ~(idle_secs > ThinkingAbove)
               /\ st.last_activity # NoActivity
               /\ st.chunks_since_heartbeat > 0,
   chunks |-> st.chunks_since_heartbeat]        \* the counter as read

render_heartbeat(st, now_, elapsed_) ==
  LET idle_secs == now_ - st.last_event_time IN
  [glyph |-> IF idle_secs < HealthyBelow THEN "green"
             ELSE IF idle_secs < DegradedBelow THEN "yellow" ELSE "red",
   mins |-> elapsed_ \div 60,
   tok |-> IF st.output_tokens > 0 THEN format_tokens(st.output_tokens) ELSE "",
   calls |-> IF st.tool_calls > 0 THEN st.tool_calls ELSE 0,
   line |-> IF idle_secs > StalledAbove THEN "stalled"
            ELSE IF idle_secs > ThinkingAbove /\ st.chunks_since_heartbeat = 0
                 THEN "thinking"
            ELSE IF st.last_activity # NoActivity THEN "activity"
            ELSE "",
   idle |-> IF idle_secs > StalledAbove THEN idle_secs ELSE 0,
   activity |-> IF /\ ~(idle_secs > StalledAbove)
                   /\ ~(idle_secs > ThinkingAbove /\ st.chunks_since_heartbeat = 0)
                THEN st.last_activity ELSE NoActivity,
   writing |-> /\ ~(idle_secs > StalledAbove)
               /\ ~(idle_secs > ThinkingAbove /\ st.chunks_since_heartbeat = 0)
               /\ st.last_activity # NoActivity
               /\ st.chunks_since_heartbeat > 0,
   chunks |-> st.chunks_since_heartbeat]        \* the counter as read

NoHeartbeat ==
  [glyph |-> "", mins |-> 0, tok |-> "", calls |-> 0, line |-> "", idle |-> 0,
   activity |-> NoActivity, writing |-> FALSE, chunks |-> 0]

(***************************************************************************)
(* Result extraction, lines 452-475.                                       *)
(***************************************************************************)
Found(v) == [text |-> v, raised |-> FALSE]
Failed(v) == [text |-> v, raised |-> TRUE]

\* tier 1 left out: no line is looked at
tier1_skipped(lines) == Found(JStr(""))

RECURSIVE tier1(_)
\* lines 453-461: the first line of type "result" ends the loop.
tier1(lines) ==
  IF lines = <<>> THEN Found(JStr(""))
  ELSE LET line == Head(lines) IN
       IF ~line.valid THEN tier1(Tail(lines))           \* JSONDecodeError, caught
       ELSE IF line.json.t # "obj" THEN Failed(JStr("")) \* AttributeError: .get
       ELSE IF Get(line.json, "type", JNull) = JStr("result")
            THEN Found(Get(line.json, "result", JStr("")))
            ELSE tier1(Tail(lines))

RECURSIVE str_chars(_)
\* list(s)
str_chars(s) == IF s = "" THEN <<>> ELSE <<JStr(Head(s))>> \o str_chars(Tail(s))

\* the text of a block added without the newline
add_text_joined(block, acc) ==
  IF block.t # "obj" THEN Failed(acc)
  ELSE IF Get(block, "type", JNull) # JStr("text") THEN Found(acc)
  ELSE LET txt == Get(block, "text", JStr("")) IN
       IF txt.t # "str" THEN Failed(acc)
       ELSE IF acc.t = "str" THEN Found(JStr(acc.s \o txt.s))
       ELSE Failed(acc)

\* final_text += block.get("text", "") + "\n"
add_text(block, acc) ==
  IF block.t # "obj" THEN Failed(acc)                   \* AttributeError: .get
  ELSE IF Get(block, "type", JNull) # JStr("text") THEN Found(acc)
  ELSE LET txt == Get(block, "text", JStr("")) IN
       IF txt.t # "str" THEN Failed(acc)                \* TypeError: None + str
       ELSE IF acc.t = "str" THEN Found(JStr(acc.s \o txt.s \o "\n"))
       ELSE IF acc.t = "arr" THEN Found(JArr(acc.a \o str_chars(txt.s \o "\n")))
       ELSE Failed(acc)                                 \* TypeError: None += str

RECURSIVE add_texts(_, _)
add_texts(blocks, acc) ==
  IF blocks = <<>> THEN Found(acc)
  ELSE LET r == add_text(Head(blocks), acc) IN
       IF r.raised THEN r ELSE add_texts(Tail(blocks), r.text)

RECURSIVE tier2(_, _)
\* lines 464-472, entered with a falsy final_text (acc)
tier2(lines, acc) ==
  IF lines = <<>> THEN Found(acc)
  ELSE LET line == Head(lines) IN
    IF ~line.valid THEN tier2(Tail(lines), acc)
    ELSE IF line.json.t # "obj" THEN Failed(acc)
    ELSE IF Get(line.json, "type", JNull) # JStr("assistant")
         THEN tier2(Tail(lines), acc)
    ELSE LET message == Get(line.json, "message", EmptyObj) IN
      IF message.t # "obj" THEN Failed(acc)
      ELSE LET content == Get(message, "content", JArr(<<>>))
               r == CASE content.t = "arr" -> add_texts(content.a, acc)
                      [] content.t = "str" ->
                           IF content.s = "" THEN Found(acc) ELSE Failed(acc)
                      [] content.t = "obj" ->
                           IF DOMAIN content.o = {} THEN Found(acc) ELSE Failed(acc)
                      [] OTHER -> Failed(acc)
           IN IF r.raised THEN r ELSE tier2(Tail(lines), r.text)

NoOutputCaptured == "(no output captured)"
NotFoundMarker == "No conversation found"

\* tier 3 with the placeholder alone
tier3_without_stderr(final, stderr_text) ==
  IF Truthy(final) THEN final ELSE JStr(NoOutputCaptured)

\* lines 474-475
tier3(final, stderr_text) ==
  IF Truthy(final) THEN final
  ELSE JStr(IF stderr_text # "" THEN stderr_text ELSE NoOutputCaptured)

\* lines 486 and 492: the status line's mark and the registry status
status_mark(timed, code) ==
  IF timed THEN "TIMEOUT" ELSE IF code = 0 THEN "OK" ELSE "ERROR"

\* the registry status taken from the exit code alone
session_status_by_exit_code(timed, code) ==
  IF code = 0 THEN "completed" ELSE "failed"

session_status(timed, code) ==
  IF timed THEN "timeout" ELSE IF code = 0 THEN "completed" ELSE "failed"

\* lines 508-535: which terminal message is built
result_message(timed, code) ==
  IF timed THEN "timeout" ELSE IF code = 0 THEN "success" ELSE "failure"

(***************************************************************************)
(* Lines the subprocess may print on its standard output.                  *)
(***************************************************************************)
TextBlock(s) == JObj([type |-> JStr("text"), text |-> s])
AssistantLine(blocks) ==
  JsonLine(JObj([type |-> JStr("assistant"),
                 message |-> JObj([content |-> JArr(blocks)])]))
ResultLine(v) == JsonLine(JObj([type |-> JStr("result"), result |-> v]))

LineInit ==
  JsonLine(JObj([type |-> JStr("system"), subtype |-> JStr("init"),
                 session_id |-> JStr("S1")]))
LineHello == AssistantLine(<<TextBlock(JStr("Hello "))>>)
LineWorld == AssistantLine(<<TextBlock(JStr("world"))>>)
LineNullText == AssistantLine(<<TextBlock(JNull)>>)
LineDone == ResultLine(JStr("Done."))
LineEmptyResult == ResultLine(JStr(""))
LineArray == JsonLine(JArr(<<JNum(1)>>))
LineBlank == BadLine("  ")
LineDelta ==
  JsonLine(JObj([type |-> JStr("stream_event"),
                 event |-> JObj([type |-> JStr("content_block_delta"),
                                 delta |-> JObj([type |-> JStr("text_delta"),
                                                 text |-> JStr("x")])])]))

\* The lines fed to parse_stream_line alone: text that is not JSON, JSON
\* values that are not objects, unknown types, and every recognised event
\* in its expected shape and in wrong shapes.
ParserLines ==
  {LineBlank,
   BadLine("not json"),
   JsonLine(JArr(<<JNum(1)>>)),
   JsonLine(JNum(5)),
   JsonLine(JStr("s")),
   JsonLine(JNull),
   JsonLine(EmptyObj),
   JsonLine(JObj([type |-> JStr("zzz")])),
   JsonLine(JObj([type |-> JNum(5)])),
   JsonLine(JObj([type |-> JStr("system"), subtype |-> JStr("init"),
       session_id |-> JStr("S1")])),
   JsonLine(JObj([type |-> JStr("system"), subtype |-> JStr("init"),
       session_id |-> JStr("S2")])),
   JsonLine(JObj([type |-> JStr("system"), subtype |-> JStr("init")])),
   JsonLine(JObj([type |-> JStr("system"), subtype |-> JStr("init"),
       session_id |-> JStr("")])),
   JsonLine(JObj([type |-> JStr("system"), subtype |-> JStr("other"),
       session_id |-> JStr("S3")])),
   JsonLine(JObj([type |-> JStr("assistant")])),
   JsonLine(JObj([type |-> JStr("assistant"), message |-> JNull])),
   JsonLine(JObj([type |-> JStr("assistant"),
       message |-> JObj([usage |-> JNull])])),
   JsonLine(JObj([type |-> JStr("assistant"),
       message |-> JObj([usage |-> JObj([output_tokens |-> JStr("x")])])])),
   JsonLine(JObj([type |-> JStr("assistant"),
       message |-> JObj([usage |-> JObj([output_tokens |-> JNum(7)])])])),
   JsonLine(JObj([type |-> JStr("assistant"),
       message |-> JObj([usage |-> JObj([output_tokens |-> JNum(-5)])])])),
   JsonLine(JObj([type |-> JStr("assistant"),
       message |-> JObj([usage |-> JStr("no output_tokens here")])])),
   JsonLine(JObj([type |-> JStr("assistant"),
       message |-> JObj([usage |-> JArr(<<JStr("output_tokens")>>)])])),
   JsonLine(JObj([type |-> JStr("assistant"),
       message |-> JObj([content |-> JNull])])),
   JsonLine(JObj([type |-> JStr("assistant"),
       message |-> JObj([content |-> JStr("x")])])),
   JsonLine(JObj([type |-> JStr("assistant"),
       message |-> JObj([content |-> JArr(<<JStr("x")>>)])])),
   JsonLine(JObj([type |-> JStr("assistant"),
       message |-> JObj([content |-> JArr(<<JObj([type |-> JStr("text"),
       text |-> JStr("Hello ")])>>)])])),
   JsonLine(JObj([type |-> JStr("assistant"),
       message |-> JObj([content |-> JArr(<<JObj([type |-> JStr("text"),
       text |-> JNull])>>)])])),
   JsonLine(JObj([type |-> JStr("assistant"),
       message |-> JObj([usage |-> JObj([output_tokens |-> JNum(3)]),
       content |-> JArr(<<JObj([type |-> JStr("tool_use"),
       name |-> JStr("Write"),
       input |-> JObj([file_path |-> JStr("src/a.py")])])>>)])])),
   JsonLine(JObj([type |-> JStr("assistant"),
       message |-> JObj([content |-> JArr(<<JObj([type |-> JStr("tool_use"),
       name |-> JStr("Edit"),
       input |-> JObj([file_path |-> JStr("b.txt")])]),
       JObj([type |-> JStr("tool_use"), name |-> JStr("Read"),
       input |-> JObj([file_path |-> JStr("/x/c.md")])])>>)])])),
   JsonLine(JObj([type |-> JStr("assistant"),
       message |-> JObj([content |-> JArr(<<JObj([type |-> JStr("tool_use"),
       name |-> JStr("Bash"),
       input |-> JObj([command |-> JStr("echo 0123456789012345678901234567890123456789012345678901234")])])>>)])])),
   JsonLine(JObj([type |-> JStr("assistant"),
       message |-> JObj([content |-> JArr(<<JObj([type |-> JStr("tool_use"),
       name |-> JStr("Bash"), input |-> JObj([command |-> JNum(5)])])>>)])])),
   JsonLine(JObj([type |-> JStr("assistant"),
       message |-> JObj([content |-> JArr(<<JObj([type |-> JStr("tool_use"),
       name |-> JStr("WebSearch")])>>)])])),
   JsonLine(JObj([type |-> JStr("assistant"),
       message |-> JObj([content |-> JArr(<<JObj([type |-> JStr("tool_use"),
       name |-> JStr("Grep")])>>)])])),
   JsonLine(JObj([type |-> JStr("assistant"),
       message |-> JObj([content |-> JArr(<<JObj([type |-> JStr("tool_use"),
       name |-> JStr("Task")])>>)])])),
   JsonLine(JObj([type |-> JStr("assistant"),
       message |-> JObj([content |-> JArr(<<JObj([type |-> JStr("tool_use")])>>)])])),
   JsonLine(JObj([type |-> JStr("assistant"),
       message |-> JObj([content |-> JArr(<<JObj([type |-> JStr("tool_use"),
       name |-> JNum(5)])>>)])])),
   JsonLine(JObj([type |-> JStr("assistant"),
       message |-> JObj([content |-> JArr(<<JObj([type |-> JStr("tool_use"),
       name |-> JStr("Write"), input |-> JNull])>>)])])),
   JsonLine(JObj([type |-> JStr("assistant"),
       message |-> JObj([content |-> JArr(<<JObj([type |-> JStr("tool_use"),
       name |-> JStr("Write"),
       input |-> JObj([file_path |-> JNum(5)])])>>)])])),
   JsonLine(JObj([type |-> JStr("assistant"),
       message |-> JObj([content |-> JArr(<<JObj([type |-> JStr("tool_use"),
       name |-> JStr("Write")]), JObj([type |-> JStr("tool_use"),
       name |-> JNum(5)])>>)])])),
   JsonLine(JObj([type |-> JStr("stream_event")])),
   JsonLine(JObj([type |-> JStr("stream_event"), event |-> JNull])),
   JsonLine(JObj([type |-> JStr("stream_event"),
       event |-> JObj([type |-> JStr("content_block_start"),
       content_block |-> JObj([type |-> JStr("tool_use"),
       name |-> JStr("Bash")])])])),
   JsonLine(JObj([type |-> JStr("stream_event"),
       event |-> JObj([type |-> JStr("content_block_start"),
       content_block |-> JObj([type |-> JStr("thinking")])])])),
   JsonLine(JObj([type |-> JStr("stream_event"),
       event |-> JObj([type |-> JStr("content_block_start"),
       content_block |-> JNull])])),
   JsonLine(JObj([type |-> JStr("stream_event"),
       event |-> JObj([type |-> JStr("content_block_delta"),
       delta |-> JObj([type |-> JStr("text_delta")])])])),
   JsonLine(JObj([type |-> JStr("stream_event"),
       event |-> JObj([type |-> JStr("content_block_delta"),
       delta |-> JObj([type |-> JStr("thinking_delta")])])])),
   JsonLine(JObj([type |-> JStr("stream_event"),
       event |-> JObj([type |-> JStr("content_block_delta"),
       delta |-> JNull])])),
   JsonLine(JObj([type |-> JStr("stream_event"),
       event |-> JObj([type |-> JStr("content_block_stop")])])),
   JsonLine(JObj([type |-> JStr("stream_event"),
       event |-> JObj([type |-> JStr("message_delta"),
       usage |-> JObj([output_tokens |-> JNum(11)])])])),
   JsonLine(JObj([type |-> JStr("stream_event"),
       event |-> JObj([type |-> JStr("message_delta"), usage |-> JNull])])),
   JsonLine(JObj([type |-> JStr("content_block_delta"),
       delta |-> JObj([type |-> JStr("text_delta")])])),
   JsonLine(JObj([type |-> JStr("message_delta"),
       usage |-> JObj([output_tokens |-> JNum(2)])])),
   JsonLine(JObj([type |-> JStr("result"), result |-> JStr("Done.")])),
   JsonLine(JObj([type |-> JStr("result"), result |-> JStr("")])),
   JsonLine(JObj([type |-> JStr("result")])),
   JsonLine(JObj([type |-> JStr("result"), result |-> JNum(5)]))}

\* What the subprocess does, by profile of the run: the lines it may print
\* and how many.
MaxLinesMain == 2
MaxLinesExtract == 3
MaxLinesCadence == 1
MaxLinesParser == 2
MaxLinesStream == 2
MaxLinesPipes == 1
Forever == 100000

ProfileLines(p) ==
  CASE p = "main" -> {LineInit, LineDone, LineArray}
    [] p = "extract" -> {LineHello, LineWorld, LineNullText, LineDone,
                         LineEmptyResult, LineArray, LineBlank}
    [] p = "cadence" -> {LineDelta}
    [] p = "stream" -> {LineDelta, LineDone}
    [] p = "pipes" -> {LineDone}
    [] OTHER -> ParserLines

ProfileMax(p) ==
  CASE p = "main" -> MaxLinesMain
    [] p = "extract" -> MaxLinesExtract
    [] p = "cadence" -> MaxLinesCadence
    [] p = "stream" -> MaxLinesStream
    [] p = "pipes" -> MaxLinesPipes
    [] OTHER -> MaxLinesParser

\* The subprocess prints while the clock is at most ProfileUntil: at once,
\* at its start, in the runs of main() that look at the outcome; at any
\* time in the streaming runs and when the reader is fed alone.
ProfileUntil(p) == IF p \in {"parser", "stream"} THEN Forever ELSE 0

\* The subprocess may end by itself while the clock is at most
\* ProfileExitUntil; after that it runs until it is signalled.
ProfileExitUntil(p) == IF p \in {"extract", "stream"} THEN 0 ELSE Forever

\* The error stream of the subprocess is a pipe (line 359) that holds
\* PipeCapacity chunks; a subprocess writes up to MaxStderrChunks chunks to
\* it before it ends. Only the runs that look at the pipes write whole
\* chunks; in the others the error text fits the pipe.
PipeCapacity == 1
MaxStderrChunks == 2
EmptyPipe == [todo |-> 0, buffered |-> 0]
ProfileStderr(p) == IF p = "pipes" THEN 0..MaxStderrChunks ELSE {0}

Sessions == {"", "agent:main:main", "agent:main:whatsapp:group:1203@g.us"}
StderrTexts == {"", "boom", "Error: No conversation found with session ID: abc"}
ExitCodes == {0, 1}
SIGTERM == 15
SIGKILL == 9

PollInterval == 5
HeartbeatInterval == 60
GracePeriod == 10
JoinTimeout == 5

VARIABLES
  args_session, args_resume, args_timeout, profile,
  pc, token, group_jid, pid_file, kill_return, waited, exit_code, hb_msg,
  proc, os_status, returncode, sigterm_sent, sigkill_sent, exit_time,
  stderr_held, stderr_pipe,
  now, start, elapsed, last_heartbeat, timed_out,
  reader, output_lines, state,
  stderr_output, final_text, output_file,
  status_line, registry, notifs, heartbeats, launch_sent, fallback_sent,
  sessions_send_failed, crash_logged

argv == <<args_session, args_resume, args_timeout, profile>>
mainv == <<token, group_jid, pid_file, kill_return, waited, exit_code, hb_msg>>
procv == <<proc, os_status, returncode, sigterm_sent, sigkill_sent, exit_time,
           stderr_held, stderr_pipe>>
timev == <<now, start, elapsed, last_heartbeat, timed_out>>
readv == <<reader, output_lines, state>>
resv == <<stderr_output, final_text, output_file>>
outv == <<status_line, registry, notifs, heartbeats, launch_sent,
          fallback_sent, sessions_send_failed, crash_logged>>
vars == <<argv, pc, mainv, procv, timev, readv, resv, outv>>

\* The state at the entry of main(), after the arguments are parsed.
AtEntry ==
  /\ pc = "mkdir"
  /\ token = FALSE /\ group_jid = "" /\ pid_file = "none"
  /\ kill_return = "" /\ waited = 0 /\ exit_code = 0 /\ hb_msg = NoHeartbeat
  /\ proc = "none" /\ os_status = <<>> /\ returncode = <<>>
  /\ sigterm_sent = FALSE /\ sigkill_sent = FALSE /\ exit_time = 0
  /\ stderr_held = FALSE /\ stderr_pipe = EmptyPipe
  /\ now = 0 /\ start = 0 /\ elapsed = 0 /\ last_heartbeat = 0
  /\ timed_out = FALSE
  /\ reader = "unstarted" /\ output_lines = <<>> /\ state = InitState(0)
  /\ stderr_output = "" /\ final_text = JStr("")
  /\ output_file = [written |-> FALSE, text |-> ""]
  /\ status_line = "" /\ registry = <<>> /\ notifs = <<>>
  /\ heartbeats = <<>> /\ launch_sent = FALSE /\ fallback_sent = FALSE
  /\ crash_logged = FALSE /\ sessions_send_failed = FALSE

Init ==
  /\ args_session \in Sessions
  /\ args_resume \in BOOLEAN
  /\ args_timeout \in {10, 65}
  /\ profile = "main"
  /\ AtEntry

(***************************************************************************)
(* main(), lines 281-566: one action per statement that can fail, wait or  *)
(* be interleaved with the reader thread and the subprocess.               *)
(***************************************************************************)
Session == args_session # ""

\* lines 294-301.  project.mkdir stands before the first try statement: an
\* exception it raises leaves main() uncaught.
Mkdir ==
  /\ pc = "mkdir"
  /\ \/ /\ group_jid' = extract_group_jid(args_session)
        /\ pc' = "get_token"
     \/ /\ pc' = "propagated"
        /\ UNCHANGED group_jid
  /\ UNCHANGED <<argv, token, pid_file, kill_return, waited, exit_code, hb_msg,
                 procv, timev, readv, resv, outv>>

\* lines 303-306: the configuration may be unreadable, the exception is dropped
GetToken ==
  /\ pc = "get_token"
  /\ \/ token' = Session
     \/ token' = FALSE
  /\ pc' = "write_pid"
  /\ UNCHANGED <<argv, group_jid, pid_file, kill_return, waited, exit_code,
                 hb_msg, procv, timev, readv, resv, outv>>

\* line 310
WritePid ==
  /\ pc = "write_pid"
  /\ \/ pid_file' = "written" /\ pc' = "git_init"
     \/ pc' = "crash" /\ UNCHANGED pid_file
  /\ UNCHANGED <<argv, token, group_jid, kill_return, waited, exit_code, hb_msg,
                 procv, timev, readv, resv, outv>>

\* lines 313-314
GitInit ==
  /\ pc = "git_init"
  /\ \/ pc' = "launch"
     \/ pc' = "crash"
  /\ UNCHANGED <<argv, mainv, procv, timev, readv, resv, outv>>

\* lines 328-338
Launch ==
  /\ pc = "launch"
  /\ launch_sent' = (group_jid # "" /\ token)
  /\ pc' = "popen"
  /\ UNCHANGED <<argv, mainv, procv, timev, readv, resv, status_line, registry,
                 notifs, heartbeats, fallback_sent, sessions_send_failed, crash_logged>>

\* lines 355-377
Popen ==
  /\ pc = "popen"
  /\ \/ /\ proc' = "running"
        /\ state' = InitState(now)
        /\ start' = now
        /\ last_heartbeat' = 0
        /\ output_lines' = <<>>
        /\ timed_out' = FALSE
        /\ \E n \in ProfileStderr(profile) :
             stderr_pipe' = [todo |-> n, buffered |-> 0]
        /\ pc' = "thread_start"
     \/ /\ pc' = "crash"
        /\ UNCHANGED <<proc, state, start, last_heartbeat, output_lines, timed_out,
                       stderr_pipe>>
  /\ UNCHANGED <<argv, mainv, os_status, returncode, sigterm_sent, sigkill_sent,
                 exit_time, stderr_held, now, elapsed, reader, resv, outv>>

\* lines 387-388
ThreadStart ==
  /\ pc = "thread_start"
  /\ \/ reader' = "running" /\ pc' = "poll"
     \/ pc' = "crash" /\ UNCHANGED reader
  /\ UNCHANGED <<argv, mainv, procv, timev, output_lines, state, resv, outv>>

\* line 391: while proc.poll() is None
Poll ==
  /\ pc = "poll"
  /\ IF proc = "running"
     THEN pc' = "sleep" /\ UNCHANGED returncode
     ELSE pc' = "join" /\ returncode' = os_status
  /\ UNCHANGED <<argv, mainv, proc, os_status, sigterm_sent, sigkill_sent,
                 exit_time, stderr_held, stderr_pipe, timev, readv, resv, outv>>

\* lines 392-393
Sleep ==
  /\ pc = "sleep"
  /\ now' = now + PollInterval
  /\ elapsed' = now' - start
  /\ pc' = "check"
  /\ UNCHANGED <<argv, mainv, procv, start, last_heartbeat, timed_out, readv,
                 resv, outv>>

\* the poll's checks with last_heartbeat never updated
CheckWithoutLastHeartbeat ==
  /\ pc = "check"
  /\ IF elapsed >= args_timeout
     THEN /\ timed_out' = TRUE
          /\ kill_return' = "join"
          /\ pc' = "terminate"
     ELSE IF elapsed - last_heartbeat >= HeartbeatInterval /\ group_jid # "" /\ token
     THEN /\ pc' = "hb_render"
          /\ UNCHANGED <<timed_out, kill_return>>
     ELSE /\ pc' = "poll"
          /\ UNCHANGED <<timed_out, kill_return>>
  /\ UNCHANGED <<argv, token, group_jid, pid_file, waited, exit_code, hb_msg,
                 procv, now, start, elapsed, last_heartbeat, readv, resv, outv>>

\* lines 396-404
Check ==
  /\ pc = "check"
  /\ IF elapsed >= args_timeout
     THEN /\ timed_out' = TRUE
          /\ kill_return' = "join"
          /\ pc' = "terminate"
          /\ UNCHANGED last_heartbeat
     ELSE IF elapsed - last_heartbeat >= HeartbeatInterval /\ group_jid # "" /\ token
     THEN /\ last_heartbeat' = elapsed
          /\ pc' = "hb_render"
          /\ UNCHANGED <<timed_out, kill_return>>
     ELSE /\ pc' = "poll"
          /\ UNCHANGED <<timed_out, kill_return, last_heartbeat>>
  /\ UNCHANGED <<argv, token, group_jid, pid_file, waited, exit_code, hb_msg,
                 procv, now, start, elapsed, readv, resv, outv>>

\* lines 405-429
HbRender ==
  /\ pc = "hb_render"
  /\ hb_msg' = render_heartbeat(state, now, elapsed)
  /\ pc' = "hb_reset"
  /\ UNCHANGED <<argv, token, group_jid, pid_file, kill_return, waited,
                 exit_code, procv, timev, readv, resv, outv>>

\* line 431
HbReset ==
  /\ pc = "hb_reset"
  /\ state' = [state EXCEPT !.chunks_since_heartbeat = 0]
  /\ pc' = "hb_send"
  /\ UNCHANGED <<argv, mainv, procv, timev, reader, output_lines, resv, outv>>

\* line 432
HbSend ==
  /\ pc = "hb_send"
  /\ heartbeats' = Append(heartbeats, [at |-> elapsed, msg |-> hb_msg])
  /\ pc' = "poll"
  /\ UNCHANGED <<argv, mainv, procv, timev, readv, resv, status_line, registry,
                 notifs, launch_sent, fallback_sent, sessions_send_failed, crash_logged>>

(***************************************************************************)
(* kill_process_graceful, lines 179-189; kill_return is where its caller   *)
(* goes on.                                                                *)
(***************************************************************************)
\* line 182: proc.terminate() polls first and signals only a live process
Terminate ==
  /\ pc = "terminate"
  /\ IF proc = "running"
     THEN sigterm_sent' = TRUE /\ UNCHANGED returncode
     ELSE returncode' = os_status /\ UNCHANGED sigterm_sent
  /\ waited' = 0
  /\ pc' = "grace_wait"
  /\ UNCHANGED <<argv, token, group_jid, pid_file, kill_return, exit_code, hb_msg,
                 proc, os_status, sigkill_sent, exit_time, stderr_held, stderr_pipe, timev, readv, resv, outv>>

\* lines 184-185: proc.wait(timeout=timeout_grace)
GraceWait ==
  /\ pc = "grace_wait"
  /\ \/ /\ proc = "exited"
        /\ returncode' = os_status
        /\ pc' = kill_return
        /\ UNCHANGED <<now, waited>>
     \/ /\ proc = "running" /\ waited < GracePeriod
        /\ now' = now + PollInterval
        /\ waited' = waited + PollInterval
        /\ UNCHANGED <<pc, returncode>>
     \/ /\ proc = "running" /\ waited >= GracePeriod
        /\ pc' = "kill"
        /\ UNCHANGED <<now, waited, returncode>>
  /\ UNCHANGED <<argv, token, group_jid, pid_file, kill_return, exit_code, hb_msg,
                 proc, os_status, sigterm_sent, sigkill_sent, exit_time, stderr_held, stderr_pipe,
                 start, elapsed, last_heartbeat, timed_out, readv, resv, outv>>

\* lines 186-187: proc.kill(); proc.wait(timeout=5).  SIGKILL cannot be
\* caught: the process is gone when the wait returns.
Kill ==
  /\ pc = "kill"
  /\ IF proc = "running"
     THEN /\ sigkill_sent' = TRUE
          /\ proc' = "exited"
          /\ os_status' = <<-SIGKILL>>
          /\ returncode' = <<-SIGKILL>>
          /\ exit_time' = now
          /\ stderr_held' \in BOOLEAN
     ELSE /\ returncode' = os_status
          /\ UNCHANGED <<sigkill_sent, proc, os_status, exit_time, stderr_held>>
  /\ pc' = kill_return
  /\ UNCHANGED <<argv, mainv, sigterm_sent, stderr_pipe, timev, readv, resv, outv>>

(***************************************************************************)
(* After the loop: lines 434-538.                                          *)
(***************************************************************************)
\* line 434: read_thread.join(timeout=5) returns when the thread has ended,
\* or after 5 seconds with the thread still reading.
Join ==
  /\ pc = "join"
  /\ \/ /\ reader \in {"finished", "dead"}
        /\ UNCHANGED now
     \/ /\ reader = "running"
        /\ now' = now + JoinTimeout
  /\ pc' = "read_stderr"
  /\ UNCHANGED <<argv, mainv, procv, start, elapsed, last_heartbeat, timed_out,
                 readv, resv, outv>>

\* lines 435-439
ReadStderr ==
  /\ pc = "read_stderr"
  /\ ~stderr_held                                  \* read() blocks until EOF
  /\ \/ \E txt \in StderrTexts : stderr_output' = txt
     \/ stderr_output' = ""                        \* read() raised
  /\ pc' = "resume_check"
  /\ UNCHANGED <<argv, mainv, procv, timev, readv, final_text, output_file, outv>>

ResumeFailed ==
  args_resume /\ stderr_output # "" /\ str_contains(NotFoundMarker, stderr_output)

\* lines 442-450; the return leaves through the finally clause
ResumeCheck ==
  /\ pc = "resume_check"
  /\ IF ResumeFailed
     THEN /\ IF Session /\ token /\ group_jid # ""
             THEN /\ notifs' = Append(notifs, "resume_failed")
                  /\ sessions_send_failed' \in BOOLEAN
             ELSE UNCHANGED <<notifs, sessions_send_failed>>
          /\ pc' = "finally"
     ELSE /\ pc' = "tier1"
          /\ UNCHANGED <<notifs, sessions_send_failed>>
  /\ UNCHANGED <<argv, mainv, procv, timev, readv, resv, status_line, registry,
                 heartbeats, launch_sent, fallback_sent, crash_logged>>

\* lines 453-461
Tier1 ==
  /\ pc = "tier1"
  /\ LET r == tier1(output_lines) IN
     /\ final_text' = r.text
     /\ pc' = IF r.raised THEN "crash" ELSE "tier2"
  /\ UNCHANGED <<argv, mainv, procv, timev, readv, stderr_output, output_file, outv>>

\* lines 463-472
Tier2 ==
  /\ pc = "tier2"
  /\ IF Truthy(final_text)
     THEN pc' = "tier3" /\ UNCHANGED final_text
     ELSE LET r == tier2(output_lines, final_text) IN
          /\ final_text' = r.text
          /\ pc' = IF r.raised THEN "crash" ELSE "tier3"
  /\ UNCHANGED <<argv, mainv, procv, timev, readv, stderr_output, output_file, outv>>

\* lines 474-475
Tier3 ==
  /\ pc = "tier3"
  /\ final_text' = tier3(final_text, stderr_output)
  /\ pc' = "save"
  /\ UNCHANGED <<argv, mainv, procv, timev, readv, stderr_output, output_file, outv>>

\* the result text not written to the output file
SaveSkipped ==
  /\ pc = "save"
  /\ pc' = IF final_text.t = "str" THEN "classify" ELSE "crash"
  /\ UNCHANGED <<argv, mainv, procv, timev, readv, resv, outv>>

\* lines 478-479: write_text raises TypeError on a value that is not a str,
\* and OSError when the file cannot be written
Save ==
  /\ pc = "save"
  /\ \/ /\ final_text.t = "str"
        /\ output_file' = [written |-> TRUE, text |-> final_text.s]
        /\ pc' = "classify"
     \/ /\ pc' = "crash"
        /\ UNCHANGED output_file
  /\ UNCHANGED <<argv, mainv, procv, timev, readv, stderr_output, final_text, outv>>

\* lines 481-487
Classify ==
  /\ pc = "classify"
  /\ exit_code' = IF returncode # <<>> THEN returncode[1] ELSE -1
  /\ status_line' = status_mark(timed_out, exit_code')
  /\ pc' = "register"
  /\ UNCHANGED <<argv, token, group_jid, pid_file, kill_return, waited, hb_msg,
                 procv, timev, readv, resv, registry, notifs, heartbeats,
                 launch_sent, fallback_sent, sessions_send_failed, crash_logged>>

\* a failure of register_session left to reach the crash handler
RegisterFatal ==
  /\ pc = "register"
  /\ \/ /\ registry' =
             IF Truthy(state.session_id)
             THEN Append(registry, [session_id |-> state.session_id,
                                    status |-> session_status(timed_out, exit_code)])
             ELSE registry
        /\ pc' = "notify"
     \/ /\ Truthy(state.session_id) /\ UNCHANGED registry
        /\ pc' = "crash"
  /\ UNCHANGED <<argv, mainv, procv, timev, readv, resv, status_line, notifs,
                 heartbeats, launch_sent, fallback_sent, sessions_send_failed,
                 crash_logged>>

\* lines 490-504: a failure of register_session is logged and dropped
Register ==
  /\ pc = "register"
  /\ \/ registry' =
          IF Truthy(state.session_id)
          THEN Append(registry, [session_id |-> state.session_id,
                                 status |-> session_status(timed_out, exit_code)])
          ELSE registry
     \/ Truthy(state.session_id) /\ UNCHANGED registry
  /\ pc' = "notify"
  /\ UNCHANGED <<argv, mainv, procv, timev, readv, resv, status_line, notifs,
                 heartbeats, launch_sent, fallback_sent, sessions_send_failed, crash_logged>>

\* lines 507-538
Notify ==
  /\ pc = "notify"
  /\ IF Session /\ token
     THEN /\ notifs' = Append(notifs, result_message(timed_out, exit_code))
          /\ sessions_send_failed' \in BOOLEAN
     ELSE UNCHANGED <<notifs, sessions_send_failed>>
  /\ pc' = "finally"
  /\ UNCHANGED <<argv, mainv, procv, timev, readv, resv, status_line, registry,
                 heartbeats, launch_sent, fallback_sent, crash_logged>>

(***************************************************************************)
(* The except handler and the finally clause, lines 540-566.               *)
(***************************************************************************)
\* the handler without the kill of the subprocess
CrashWithoutKill ==
  /\ pc = "crash"
  /\ crash_logged' = TRUE
  /\ pc' = "crash_notify"
  /\ UNCHANGED <<argv, mainv, procv, timev, readv, resv, status_line, registry,
                 notifs, heartbeats, launch_sent, fallback_sent, sessions_send_failed>>

\* lines 540-547
Crash ==
  /\ pc = "crash"
  /\ crash_logged' = TRUE
  /\ IF proc = "running"
     THEN /\ kill_return' = "crash_notify"
          /\ pc' = "terminate"
          /\ UNCHANGED returncode
     ELSE /\ pc' = "crash_notify"
          /\ returncode' = IF proc = "exited" THEN os_status ELSE returncode
          /\ UNCHANGED kill_return
  /\ UNCHANGED <<argv, token, group_jid, pid_file, waited, exit_code, hb_msg,
                 proc, os_status, sigterm_sent, sigkill_sent, exit_time, stderr_held, stderr_pipe, timev,
                 readv, resv, status_line, registry, notifs, heartbeats,
                 launch_sent, fallback_sent, sessions_send_failed>>

\* the handler without its notification
CrashNotifySilent ==
  /\ pc = "crash_notify"
  /\ pc' = "crash_fallback"
  /\ UNCHANGED <<argv, mainv, procv, timev, readv, resv, outv>>

\* lines 549-556
CrashNotify ==
  /\ pc = "crash_notify"
  /\ IF Session /\ token
     THEN /\ notifs' = Append(notifs, "crash")
          /\ sessions_send_failed' \in BOOLEAN
     ELSE UNCHANGED <<notifs, sessions_send_failed>>
  /\ pc' = "crash_fallback"
  /\ UNCHANGED <<argv, mainv, procv, timev, readv, resv, status_line, registry,
                 heartbeats, launch_sent, fallback_sent, crash_logged>>

\* lines 559-561
CrashFallback ==
  /\ pc = "crash_fallback"
  /\ fallback_sent' = (group_jid # "" /\ token /\ ~Session)
  /\ pc' = "finally"
  /\ UNCHANGED <<argv, mainv, procv, timev, readv, resv, status_line, registry,
                 notifs, heartbeats, launch_sent, sessions_send_failed,
                 crash_logged>>

\* the finally clause left out: main() returns as it is
FinallyWithoutCleanup ==
  /\ pc = "finally"
  /\ pc' = "done"
  /\ UNCHANGED <<argv, token, group_jid, pid_file, kill_return, waited,
                 exit_code, hb_msg, procv, timev, readv, resv, outv>>

\* lines 563-566
Finally ==
  /\ pc = "finally"
  /\ pid_file' = IF pid_file = "written" THEN "removed" ELSE pid_file
  /\ pc' = "done"
  /\ UNCHANGED <<argv, token, group_jid, kill_return, waited, exit_code, hb_msg,
                 procv, timev, readv, resv, outv>>

(***************************************************************************)
(* The reader thread, lines 380-385, and the subprocess.                   *)
(***************************************************************************)
\* One line arrives on the pipe and is handled: blank lines are skipped, a
\* line is appended before it is parsed, and an exception that leaves
\* parse_stream_line ends the thread.
ReaderStep ==
  /\ reader = "running"
  /\ Len(output_lines) < ProfileMax(profile)
  /\ now <= ProfileUntil(profile)
  /\ \E line \in ProfileLines(profile) :
       IF IsBlank(line)
       THEN UNCHANGED readv
       ELSE LET r == parse_stream_line(line, state, now) IN
            /\ output_lines' = Append(output_lines, line)
            /\ state' = r.st
            /\ reader' = IF r.raised THEN "dead" ELSE "running"
  /\ UNCHANGED <<argv, pc, mainv, procv, timev, resv, outv>>

\* for line in proc.stdout ends when the pipe is closed
ReaderEOF ==
  /\ reader = "running"
  /\ proc = "exited"
  /\ reader' = "finished"
  /\ UNCHANGED <<argv, pc, mainv, procv, timev, output_lines, state, resv, outv>>

\* The subprocess ends by itself, or on the termination signal it was sent.
ProcExit ==
  /\ proc = "running"
  /\ sigterm_sent \/ (now <= ProfileExitUntil(profile) /\ stderr_pipe.todo = 0)
  /\ \E code \in ExitCodes \cup (IF sigterm_sent THEN {-SIGTERM} ELSE {}) :
       os_status' = <<code>>
  /\ proc' = "exited"
  /\ exit_time' = now
  /\ stderr_held' \in BOOLEAN
  /\ UNCHANGED <<argv, pc, mainv, returncode, sigterm_sent, sigkill_sent,
                 stderr_pipe, timev, readv, resv, outv>>

\* The subprocess writes one more chunk to its error stream; the write
\* waits while the pipe of line 359 is full, and nothing reads that pipe
\* before line 437.
ProcWriteStderr ==
  /\ proc = "running"
  /\ stderr_pipe.todo > 0
  /\ stderr_pipe.buffered < PipeCapacity
  /\ now <= ProfileUntil(profile)
  /\ stderr_pipe' = [todo |-> stderr_pipe.todo - 1,
                     buffered |-> stderr_pipe.buffered + 1]
  /\ UNCHANGED <<argv, pc, mainv, proc, os_status, returncode, sigterm_sent,
                 sigkill_sent, exit_time, stderr_held, timev, readv, resv, outv>>

\* line 437: the read returns once every holder of the pipe's write end,
\* descendants of the subprocess included, has closed it
DescendantExit ==
  /\ stderr_held
  /\ stderr_held' = FALSE
  /\ UNCHANGED <<argv, pc, mainv, proc, os_status, returncode, sigterm_sent,
                 sigkill_sent, exit_time, stderr_pipe, timev, readv, resv, outv>>

Next ==
  \/ Mkdir \/ GetToken \/ WritePid \/ GitInit \/ Launch \/ Popen \/ ThreadStart
  \/ Poll \/ Sleep \/ Check \/ HbRender \/ HbReset \/ HbSend
  \/ Terminate \/ GraceWait \/ Kill
  \/ Join \/ ReadStderr \/ ResumeCheck \/ Tier1 \/ Tier2 \/ Tier3 \/ Save
  \/ Classify \/ Register \/ Notify
  \/ Crash \/ CrashNotify \/ CrashFallback \/ Finally
  \/ ReaderStep \/ ReaderEOF \/ ProcExit \/ DescendantExit

Spec == Init /\ [][Next]_vars

(***************************************************************************)
(* Runs that look at the extraction: one notified session, a richer set of *)
(* printed lines.                                                          *)
(***************************************************************************)
InitExtract ==
  /\ args_session = "agent:main:whatsapp:group:1203@g.us"
  /\ args_resume = FALSE
  /\ args_timeout = 65
  /\ profile = "extract"
  /\ AtEntry

SpecExtract == InitExtract /\ [][Next]_vars

(***************************************************************************)
(* Runs that look at the heartbeat cadence: long runs, few printed lines.  *)
(***************************************************************************)
InitCadence ==
  /\ args_session \in {"agent:main:whatsapp:group:1203@g.us", "agent:main:main"}
  /\ args_resume = FALSE
  /\ args_timeout \in {120, 200}
  /\ profile = "cadence"
  /\ AtEntry

SpecCadence == InitCadence /\ [][Next]_vars

(***************************************************************************)
(* Runs whose subprocess also fills its error stream.                      *)
(***************************************************************************)
InitPipes ==
  /\ args_session \in {"", "agent:main:whatsapp:group:1203@g.us"}
  /\ args_resume = FALSE
  /\ args_timeout = 65
  /\ profile = "pipes"
  /\ AtEntry

NextPipes == Next \/ ProcWriteStderr

SpecPipes == InitPipes /\ [][NextPipes]_vars

(***************************************************************************)
(* Runs whose subprocess prints at any time: the reader thread works       *)
(* while main() polls, renders heartbeats, joins and extracts.             *)
(***************************************************************************)
InitStream ==
  /\ args_session = "agent:main:whatsapp:group:1203@g.us"
  /\ args_resume = FALSE
  /\ args_timeout = 65
  /\ profile = "stream"
  /\ AtEntry

SpecStream == InitStream /\ [][Next]_vars

(***************************************************************************)
(* The reader thread alone, fed every line of ParserLines, with the clock  *)
(* advancing between lines.                                                *)
(***************************************************************************)
MaxParserClock == 10

InitParser ==
  /\ args_session = "" /\ args_resume = FALSE /\ args_timeout = 65
  /\ profile = "parser"
  /\ pc = "poll"
  /\ token = FALSE /\ group_jid = "" /\ pid_file = "written"
  /\ kill_return = "" /\ waited = 0 /\ exit_code = 0 /\ hb_msg = NoHeartbeat
  /\ proc = "running" /\ os_status = <<>> /\ returncode = <<>>
  /\ sigterm_sent = FALSE /\ sigkill_sent = FALSE /\ exit_time = 0
  /\ stderr_held = FALSE /\ stderr_pipe = EmptyPipe
  /\ now = 0 /\ start = 0 /\ elapsed = 0 /\ last_heartbeat = 0
  /\ timed_out = FALSE
  /\ reader = "running" /\ output_lines = <<>> /\ state = InitState(0)
  /\ stderr_output = "" /\ final_text = JStr("")
  /\ output_file = [written |-> FALSE, text |-> ""]
  /\ status_line = "" /\ registry = <<>> /\ notifs = <<>>
  /\ heartbeats = <<>> /\ launch_sent = FALSE /\ fallback_sent = FALSE
  /\ crash_logged = FALSE /\ sessions_send_failed = FALSE

\* time passes between two lines
ParserTick ==
  /\ now < MaxParserClock
  /\ now' = now + PollInterval
  /\ UNCHANGED <<argv, pc, mainv, procv, start, elapsed, last_heartbeat,
                 timed_out, readv, resv, outv>>

NextParser == ReaderStep \/ ParserTick

SpecParser == InitParser /\ [][NextParser]_vars

(***************************************************************************)
(* format_tokens alone, applied to every count up to MaxTokens; the text   *)
(* it returns is kept in the token part of the heartbeat (line 418).       *)
(***************************************************************************)
MaxTokens == 12345

InitFormat ==
  /\ args_session = "" /\ args_resume = FALSE /\ args_timeout = 65
  /\ profile = "format"
  /\ pc = "format_tokens"
  /\ token = FALSE /\ group_jid = "" /\ pid_file = "written"
  /\ kill_return = "" /\ waited = 0 /\ exit_code = 0 /\ hb_msg = NoHeartbeat
  /\ proc = "running" /\ os_status = <<>> /\ returncode = <<>>
  /\ sigterm_sent = FALSE /\ sigkill_sent = FALSE /\ exit_time = 0
  /\ stderr_held = FALSE /\ stderr_pipe = EmptyPipe
  /\ now = 0 /\ start = 0 /\ elapsed = 0 /\ last_heartbeat = 0
  /\ timed_out = FALSE
  /\ reader = "running" /\ output_lines = <<>>
  /\ \E n \in 0..MaxTokens : state = [InitState(0) EXCEPT !.output_tokens = n]
  /\ stderr_output = "" /\ final_text = JStr("")
  /\ output_file = [written |-> FALSE, text |-> ""]
  /\ status_line = "" /\ registry = <<>> /\ notifs = <<>>
  /\ heartbeats = <<>> /\ launch_sent = FALSE /\ fallback_sent = FALSE
  /\ crash_logged = FALSE /\ sessions_send_failed = FALSE

FormatTokens ==
  /\ pc = "format_tokens"
  /\ hb_msg' = [hb_msg EXCEPT !.tok = format_tokens(state.output_tokens)]
  /\ pc' = "formatted"
  /\ UNCHANGED <<argv, token, group_jid, pid_file, kill_return, waited,
                 exit_code, procv, timev, readv, resv, outv>>

NextFormat == FormatTokens

SpecFormat == InitFormat /\ [][NextFormat]_vars

(***************************************************************************)
(* The heartbeat rendering alone (lines 405-429), for every idle gap up to *)
(* MaxIdle, every counter value up to MaxChunks and the activities below.  *)
(***************************************************************************)
MaxIdle == 125
MaxChunks == 2

RenderActivities ==
  {NoActivity, Act("writing", JNull, JNull), Act("search", JStr("Grep"), JNull)}

InitRender ==
  /\ args_session = "agent:main:whatsapp:group:1203@g.us"
  /\ args_resume = FALSE /\ args_timeout = Forever
  /\ profile = "render"
  /\ pc = "hb_render"
  /\ token = TRUE /\ group_jid = extract_group_jid(args_session)
  /\ pid_file = "written"
  /\ kill_return = "" /\ waited = 0 /\ exit_code = 0 /\ hb_msg = NoHeartbeat
  /\ proc = "running" /\ os_status = <<>> /\ returncode = <<>>
  /\ sigterm_sent = FALSE /\ sigkill_sent = FALSE /\ exit_time = 0
  /\ stderr_held = FALSE /\ stderr_pipe = EmptyPipe
  /\ now \in 0..MaxIdle /\ start = 0 /\ elapsed = now /\ last_heartbeat = elapsed
  /\ timed_out = FALSE
  /\ reader = "running" /\ output_lines = <<>>
  /\ \E c \in 0..MaxChunks, a \in RenderActivities :
       state = [InitState(0) EXCEPT !.chunks_since_heartbeat = c,
                                    !.last_activity = a]
  /\ stderr_output = "" /\ final_text = JStr("")
  /\ output_file = [written |-> FALSE, text |-> ""]
  /\ status_line = "" /\ registry = <<>> /\ notifs = <<>>
  /\ heartbeats = <<>> /\ launch_sent = TRUE /\ fallback_sent = FALSE
  /\ crash_logged = FALSE /\ sessions_send_failed = FALSE

NextRender == HbRender

SpecRender == InitRender /\ [][NextRender]_vars

(***************************************************************************)
(* Properties.                                                             *)
(***************************************************************************)
\* The final text is extracted: main() stands between tier 3 and the end of
\* the notification.
Extracted == pc \in {"save", "classify", "register", "notify"}

IsResultEvent(line) ==
  line.valid /\ line.json.t = "obj" /\ Get(line.json, "type", JNull) = JStr("result")

\* The result fields of the terminal-result events of the captured output
ResultFields(lines) ==
  {Get(lines[i].json, "result", JStr("")) :
     i \in {j \in 1..Len(lines) : IsResultEvent(lines[j])}}

RECURSIVE BlockTexts(_)
BlockTexts(blocks) ==
  IF blocks = <<>> THEN <<>>
  ELSE LET b == Head(blocks) IN
       (IF b.t = "obj" /\ Get(b, "type", JNull) = JStr("text")
           /\ Get(b, "text", JNull).t = "str"
        THEN <<Get(b, "text", JNull).s>> ELSE <<>>) \o BlockTexts(Tail(blocks))

RECURSIVE Fragments(_)
\* The text fragments of the assistant-turn events, in arrival order
Fragments(lines) ==
  IF lines = <<>> THEN <<>>
  ELSE LET l == Head(lines)
           isAssistant == l.valid /\ l.json.t = "obj"
                          /\ Get(l.json, "type", JNull) = JStr("assistant")
                          /\ Get(l.json, "message", JNull).t = "obj"
                          /\ Get(Get(l.json, "message", JNull), "content", JNull).t = "arr"
       IN (IF isAssistant
           THEN BlockTexts(Get(Get(l.json, "message", JNull), "content", JNull).a)
           ELSE <<>>) \o Fragments(Tail(lines))

RECURSIVE Concat(_)
Concat(texts) == IF texts = <<>> THEN "" ELSE Head(texts) \o Concat(Tail(texts))

RECURSIVE ConcatLines(_)
ConcatLines(texts) ==
  IF texts = <<>> THEN "" ELSE Head(texts) \o "\n" \o ConcatLines(Tail(texts))

HeartbeatTimes == [i \in 1..Len(heartbeats) |-> heartbeats[i].at]

\* main() has left the poll loop (or never entered it)
LoopOver ==
  pc \notin {"mkdir", "get_token", "write_pid", "git_init", "launch", "popen",
             "thread_start", "poll", "sleep", "check", "hb_render", "hb_reset",
             "hb_send"}

\* C1: parse_stream_line never raises, whatever the line (text that is not
\* JSON, JSON that is not an object, unknown types, events of the wrong
\* shape): no line ends the reader thread, which goes on to the next line.
C1_ParserNeverRaises == reader # "dead"

\* C2: once the timeout is detected, the termination signal comes first, the
\* wait lasts at most the grace period, the forced kill is sent only after
\* the whole grace period with the subprocess still running, and every
\* classification the run produces (status line, registry status, terminal
\* notification) is the timed-out one, whatever the exit code: a timed-out
\* run that reaches the classification is marked TIMEOUT and its terminal
\* notification is the timeout message.
C2_TimeoutClassifiedTimedOut ==
  /\ waited <= GracePeriod
  /\ sigkill_sent => (sigterm_sent /\ waited = GracePeriod)
  /\ (timed_out /\ pc # "terminate") =>
        (sigterm_sent \/ (proc = "exited" /\ ~sigkill_sent))
  /\ timed_out =>
        /\ status_line \in {"", "TIMEOUT"}
        /\ \A i \in 1..Len(registry) : registry[i].status = "timeout"
        /\ \A i \in 1..Len(notifs) : notifs[i] \notin {"success", "failure"}
        /\ pc \in {"register", "notify", "finally", "done"} /\ output_file.written
              => status_line = "TIMEOUT"
        /\ (pc = "done" /\ status_line = "TIMEOUT" /\ Session /\ token)
              => notifs = <<"timeout">>

\* C2, its case: a timed-out run whose subprocess ended on the termination
\* signal with exit code 0, classified timed-out in all three places.
C2_Witness ==
  /\ pc = "done" /\ timed_out /\ sigterm_sent /\ ~sigkill_sent
  /\ exit_code = 0
  /\ status_line = "TIMEOUT"
  /\ notifs = <<"timeout">>
  /\ Len(registry) = 1 /\ registry[1].status = "timeout"

\* C3: when main returns after the subprocess was started, the subprocess is
\* no longer running.
C3_SubprocessGoneAtReturn ==
  (pc = "done" /\ proc # "none") => proc = "exited"

\* C3, its case: an exception after Popen with the subprocess running, which
\* the handler had to kill.
C3_Witness ==
  pc = "done" /\ crash_logged /\ ~timed_out /\ sigkill_sent /\ proc = "exited"

\* C4: never two terminal notifications, and exactly one (success, failure,
\* timeout or crash) at the end of every run that has a session key and a
\* token and whose subprocess has ended without a resume failure.
C4_ExactlyOneTerminalNotification ==
  /\ Len(notifs) <= 1
  /\ (pc = "done" /\ Session /\ token /\ proc = "exited" /\ ~ResumeFailed) =>
        /\ Len(notifs) = 1
        /\ notifs[1] \in {"success", "failure", "timeout", "crash"}

\* C4, its case: the file could not be written after the extraction found
\* the result, and the crash notification is the only one.
C4_Witness ==
  /\ pc = "done" /\ Session /\ token
  /\ final_text = JStr("Done.") /\ ~output_file.written
  /\ notifs = <<"crash">>

\* C5: in a run that has a session key and a token, when a resume token was
\* given and the error stream holds the not-found marker, exactly one
\* resume-failure notification is sent, the extraction is skipped, nothing
\* is registered and no other notification is sent.
C5_ResumeFailureNotifiedOnce ==
  (pc = "done" /\ ResumeFailed /\ Session /\ token) =>
     /\ notifs = <<"resume_failed">>
     /\ registry = <<>>
     /\ ~output_file.written /\ status_line = "" /\ final_text = JStr("")

C7_SingleTrailingNewline ==
  (Extracted /\ ResultFields(output_lines) = {} /\ Fragments(output_lines) # <<>>) =>
     final_text = JStr(Concat(Fragments(output_lines)) \o "\n")

\* C7, amended: with no terminal-result event, the extracted text is the
\* concatenation, in arrival order, of all fragments, each one followed by a
\* newline ("Hello \nworld\n").
C7_NewlineAfterEachFragment ==
  (Extracted /\ ResultFields(output_lines) = {} /\ Fragments(output_lines) # <<>>) =>
     final_text = JStr(ConcatLines(Fragments(output_lines)))

\* C7, its case: the fragments "Hello " and "world".
C7_Witness ==
  /\ pc = "save"
  /\ output_lines = <<LineHello, LineWorld>>
  /\ final_text = JStr("Hello \nworld\n")

\* C8: if tier 1 and tier 2 both yield empty text, the final text (and the
\* file) is the error-stream text when that is not empty, and otherwise the
\* literal "(no output captured)".
C8_Tier3Fallback ==
  LET t1 == tier1(output_lines)
      t2 == tier2(output_lines, t1.text)
      expected == IF stderr_output # "" THEN stderr_output
                  ELSE "(no output captured)"
  IN (~t1.raised /\ ~Truthy(t1.text) /\ ~t2.raised /\ ~Truthy(t2.text)) =>
        /\ Extracted => final_text = JStr(expected)
        /\ output_file.written => output_file.text = expected

\* C8, its case: nothing captured, nothing on the error stream.
C8_Witness ==
  /\ pc = "done"
  /\ output_lines = <<>> /\ stderr_output = ""
  /\ output_file = [written |-> TRUE, text |-> "(no output captured)"]

\* C9 as stated, for a run with a group and a token: a subprocess alive for
\* 185 seconds gets the heartbeats of 60, 120 and 180; consecutive
\* heartbeats are at least 60 seconds apart; and a run of duration D emitted
\* floor(D/60) heartbeats, D being the elapsed time main() measured at the
\* last poll of its loop.
C9_FloorOfDuration ==
  (group_jid # "" /\ token /\ LoopOver /\ proc = "exited") =>
     /\ (exit_time - start = 185 /\ ~timed_out) => HeartbeatTimes = <<60, 120, 180>>
     /\ \A i \in 2..Len(heartbeats) :
           heartbeats[i].at - heartbeats[i-1].at >= HeartbeatInterval
     /\ Len(heartbeats) = elapsed \div HeartbeatInterval

\* C9, amended, for a run with a group and a token: the i-th heartbeat is
\* emitted at elapsed 60*i, below the timeout; when the loop is over their
\* number is floor(E/60), E the elapsed time of the last poll that did not
\* detect the timeout; a subprocess alive for 185 seconds, not timed out,
\* gets exactly the heartbeats of 60, 120 and 180.
C9_Cadence ==
  (group_jid # "" /\ token) =>
     /\ \A i \in 1..Len(heartbeats) :
           /\ heartbeats[i].at = HeartbeatInterval * i
           /\ heartbeats[i].at < args_timeout
     /\ LoopOver =>
           Len(heartbeats) =
             (IF timed_out THEN elapsed - PollInterval ELSE elapsed)
                \div HeartbeatInterval
     /\ (LoopOver /\ proc = "exited" /\ exit_time - start = 185 /\ ~timed_out)
           => HeartbeatTimes = <<60, 120, 180>>

\* C9, its case: the run of 185 seconds with its three heartbeats.
C9_Witness ==
  /\ pc = "done" /\ ~timed_out
  /\ exit_time - start = 185
  /\ HeartbeatTimes = <<60, 120, 180>>

\* C10: no exception raised during the setup (the creation of the working
\* directory and the writing of the PID file included) leaves main().
C10_NothingPropagates == pc # "propagated"

\* C11: on the crash path, when the session notification (sessions_send)
\* has failed and a token and a group identifier are known, the direct
\* fallback message to the group is sent.
C11_FallbackWhenPrimaryFails ==
  (crash_logged /\ pc \in {"finally", "done"} /\ sessions_send_failed
     /\ token /\ group_jid # "")
    => fallback_sent

\* The fallback of lines 559-561 is sent in no run at all.
FallbackNeverSent == ~fallback_sent

\* main()'s own thread of control: every step but those of the reader
\* thread, the subprocess and its descendants
MainThread ==
  \/ Mkdir \/ GetToken \/ WritePid \/ GitInit \/ Launch \/ Popen \/ ThreadStart
  \/ Poll \/ Sleep \/ Check \/ HbRender \/ HbReset \/ HbSend
  \/ Terminate \/ GraceWait \/ Kill
  \/ Join \/ ReadStderr \/ ResumeCheck \/ Tier1 \/ Tier2 \/ Tier3 \/ Save
  \/ Classify \/ Register \/ Notify
  \/ Crash \/ CrashNotify \/ CrashFallback \/ Finally

Returned == pc \in {"done", "propagated"}

\* main() has read output_lines for the extraction (line 454 onwards)
ExtractionBegun ==
  pc \in {"tier2", "tier3", "save", "classify", "register", "notify"}

\* C12: once the coordinator has begun reading the captured output, the
\* reader thread appends no further line to it and updates the progress
\* state no more.
C12_NoAppendAfterExtractionBegins ==
  [][ExtractionBegun => (output_lines' = output_lines /\ state' = state)]_vars

\* C13: main() never waits without bound: as long as it has not returned,
\* its thread of control has a step it can take, whatever the subprocess,
\* its descendants and the reader thread do or fail to do.
C13_CoordinatorNeverBlocked == ~Returned => ENABLED MainThread

\* a is an initial part of b
IsPrefix(a, b) == Len(a) <= Len(b) /\ SubSeq(b, 1, Len(a)) = a

\* json.loads gives a dict: the line is an event
IsEventLine(line) == line.valid /\ line.json.t = "obj"

\* C14: whatever lines parse_stream_line is fed, no step decreases the
\* tool-invocation count or the output-token count, the written-file
\* sequence only grows by appending, the last-event timestamp never goes
\* back, and every appended line that is an event sets it to the clock.
C14_ProgressOnlyGrows ==
  [][/\ state'.tool_calls >= state.tool_calls
     /\ state'.output_tokens >= state.output_tokens
     /\ IsPrefix(state.files_written, state'.files_written)
     /\ state'.last_event_time >= state.last_event_time
     /\ (Len(output_lines') > Len(output_lines)
         /\ IsEventLine(output_lines'[Len(output_lines')]))
          => state'.last_event_time = now]_vars

\* d.dK for a number of tenths of a thousand
OneDecimalK(tenths) ==
  ToString(tenths \div 10) \o "." \o ToString(tenths % 10) \o "K"

\* C15: format_tokens(n) is the decimal digits of n below 1000; from 1000
\* to 9999 the value in thousands with exactly one decimal (a nearest tenth
\* of n / 1000) and the suffix K; from 10000 on floor(n / 1000) and K.
\* 0 -> "0", 999 -> "999", 1500 -> "1.5K", 12345 -> "12K".
C15_FormatTokens ==
  pc = "formatted" =>
    LET n == state.output_tokens
        text == hb_msg.tok
    IN /\ n < 1000 => text = ToString(n)
       /\ (1000 <= n /\ n < 10000) =>
            \E tenths \in 10..100 :
              /\ text = OneDecimalK(tenths)
              /\ 100 * tenths - 50 <= n /\ n <= 100 * tenths + 50
       /\ n >= 10000 => text = ToString(n \div 1000) \o "K"
       /\ n = 0 => text = "0"
       /\ n = 999 => text = "999"
       /\ n = 1500 => text = "1.5K"
       /\ n = 12345 => text = "12K"

C15_Witness ==
  pc = "formatted" /\ state.output_tokens = 1500 /\ hb_msg.tok = "1.5K"

\* C16: once write_pid_file has written the PID file, main() does not
\* return with the file still in place, whichever way the run ends
\* (natural exit, timeout, resume failure, crash).
C16_PidFileRemovedAtReturn == Returned => pid_file # "written"

C16_Witness ==
  /\ pc = "done" /\ pid_file = "removed"
  /\ crash_logged /\ sigterm_sent

\* The subprocess has ended by itself, unsignalled, at an elapsed time
\* strictly below the configured timeout.
ExitedByItselfInTime ==
  proc = "exited" /\ ~sigterm_sent /\ ~sigkill_sent
    /\ exit_time - start < args_timeout

\* C17: a subprocess that ends by itself before the timeout is never
\* classified timed-out: the run is marked OK or ERROR by its exit code,
\* registered completed or failed, and notified as success or failure, also
\* when it ended during the 5-second sleep after which elapsed >= timeout.
C17_OwnExitNeverTimedOut ==
  ExitedByItselfInTime =>
    /\ ~timed_out
    /\ status_line \in {"", "OK", "ERROR"}
    /\ \A i \in 1..Len(registry) : registry[i].status \in {"completed", "failed"}
    /\ \A i \in 1..Len(notifs) : notifs[i] # "timeout"

\* the number of captured lines whose parsing increments the
\* since-last-heartbeat counter (line 233)
RECURSIVE ContentIncrements(_)
ContentIncrements(lines) ==
  IF lines = <<>> THEN 0
  ELSE parse_stream_line(Head(lines), InitState(0), 0).st.chunks_since_heartbeat
         + ContentIncrements(Tail(lines))

\* what the heartbeats sent so far have read of the counter
RECURSIVE CountedInHeartbeats(_)
CountedInHeartbeats(hbs) ==
  IF hbs = <<>> THEN 0
  ELSE Head(hbs).msg.chunks + CountedInHeartbeats(Tail(hbs))

\* C18: the since-last-heartbeat counter is exact: between two heartbeats
\* every increment parsed so far is either in the counter or was read by
\* exactly one heartbeat already sent, and the counter is not reset before
\* the heartbeat that read it has been dispatched.
C18_ChunkCounterExact ==
  /\ pc \in {"poll", "sleep", "check"} =>
       ContentIncrements(output_lines)
         = state.chunks_since_heartbeat + CountedInHeartbeats(heartbeats)
  /\ pc = "hb_send" => state.chunks_since_heartbeat >= hb_msg.chunks

\* C19: the captured session identifier is set at most once: once an init
\* event has set it, no later line changes it.
C19_SessionIdSetOnce ==
  [][state.session_id # JNull => state'.session_id = state.session_id]_vars

\* the positions of the terminal-result events in the captured output
ResultPositions(lines) == {j \in 1..Len(lines) : IsResultEvent(lines[j])}

\* the result field of the last terminal-result event in arrival order
LastResultField(lines) ==
  LET last == CHOOSE j \in ResultPositions(lines) :
                \A k \in ResultPositions(lines) : k <= j
  IN Get(lines[last].json, "result", JStr(""))

\* C20: when the captured output holds several terminal-result events, the
\* text tier 1 extracts is the result field of the last of them.
C20_Tier1UsesLastResult ==
  (pc = "tier2" /\ Cardinality(ResultPositions(output_lines)) >= 2)
    => final_text = LastResultField(output_lines)

\* C21: heartbeats are dispatched only while the subprocess is alive: none
\* carries an elapsed time later than the moment the subprocess ended (an
\* exit during the sleep before the heartbeat check included), and none is
\* dispatched in the poll that detects the timeout.
C21_HeartbeatOnlyWhileAlive ==
  /\ proc = "exited" =>
       \A i \in 1..Len(heartbeats) : heartbeats[i].at <= exit_time - start
  /\ \A i \in 1..Len(heartbeats) : heartbeats[i].at < args_timeout

\* C22: in a rendered heartbeat the glyph is healthy below 30 s of idle
\* gap, degraded below 120 s, stalled otherwise; the activity line is the
\* stalled text with the idle seconds above 120 s, else the thinking text
\* above 15 s with the counter at 0, else the last recorded activity with
\* the writing marker iff the counter is > 0, and absent when there is none.
C22_HeartbeatRendering ==
  pc = "hb_reset" =>
    LET idle == now - state.last_event_time
        count == state.chunks_since_heartbeat
        last == state.last_activity
    IN /\ hb_msg.glyph = (IF idle < 30 THEN "green"
                          ELSE IF idle < 120 THEN "yellow" ELSE "red")
       /\ idle > 120 =>
            /\ hb_msg.line = "stalled" /\ hb_msg.idle = idle
            /\ hb_msg.activity = NoActivity /\ ~hb_msg.writing
       /\ (idle <= 120 /\ idle > 15 /\ count = 0) =>
            /\ hb_msg.line = "thinking" /\ hb_msg.idle = 0
            /\ hb_msg.activity = NoActivity /\ ~hb_msg.writing
       /\ (idle <= 120 /\ ~(idle > 15 /\ count = 0) /\ last # NoActivity) =>
            /\ hb_msg.line = "activity" /\ hb_msg.idle = 0
            /\ hb_msg.activity = last
            /\ hb_msg.writing = (count > 0)
       /\ (idle <= 120 /\ ~(idle > 15 /\ count = 0) /\ last = NoActivity) =>
            /\ hb_msg.line = "" /\ hb_msg.idle = 0
            /\ hb_msg.activity = NoActivity /\ ~hb_msg.writing

\* C22, its case: an idle gap of 16 s with content received since the last
\* heartbeat shows the last activity with the writing marker.
C22_Witness ==
  /\ pc = "hb_reset" /\ now - state.last_event_time = 16
  /\ state.chunks_since_heartbeat > 0
  /\ hb_msg.line = "activity" /\ hb_msg.writing /\ hb_msg.glyph = "green"

\* the terminal notification that goes with a registry status
NotificationOf(status) ==
  CASE status = "timeout" -> "timeout"
    [] status = "completed" -> "success"
    [] status = "failed" -> "failure"

\* C23: the registry is written at most once per run, only with a captured
\* session identifier and only in a run that neither took the resume-failure
\* return nor crashed; every terminal notification of the run carries the
\* classification written to the registry; and a run that reached the
\* registration with session key and token ends with its terminal
\* notification, whether the registry call succeeded or failed.
C23_RegistryOnceAndConsistent ==
  /\ Len(registry) <= 1
  /\ registry # <<>> =>
       /\ Truthy(state.session_id)
       /\ ~crash_logged
       /\ "resume_failed" \notin {notifs[i] : i \in 1..Len(notifs)}
       /\ registry[1].status \in {"timeout", "completed", "failed"}
       /\ \A i \in 1..Len(notifs) : notifs[i] = NotificationOf(registry[1].status)
  /\ (pc \in {"finally", "done"} /\ status_line # "" /\ Session /\ token) =>
       /\ notifs = <<result_message(timed_out, exit_code)>>
       /\ ~crash_logged

\* C23, its cases: a registered timed-out run with its timeout notification.
C23_Witness ==
  /\ pc = "done" /\ registry # <<>> /\ registry[1].status = "timeout"
  /\ notifs = <<"timeout">>

\* the subprocess waits in a write to its error stream: the pipe is full
\* and it has more to write
StderrBlocked ==
  proc = "running" /\ stderr_pipe.todo > 0 /\ stderr_pipe.buffered = PipeCapacity

\* C24: the supervisor never stalls a healthy subprocess: the timeout never
\* strikes a subprocess that has been waiting, since it filled the pipe at
\* its start, for the supervisor to read its error stream, however much it
\* writes to it.
C24_NeverStalled == ~(timed_out /\ StderrBlocked)

\* C25: whenever the registry has been written or a success or timeout
\* notification, which names the output file, has been sent, the output
\* file holds exactly the extracted final text; and a run that took the
\* resume-failure return has written no output file.
C25_FileBeforeRegistryAndNotification ==
  /\ (registry # <<>> \/ \E i \in 1..Len(notifs) : notifs[i] \in {"success", "timeout"})
       => /\ output_file.written
          /\ JStr(output_file.text) = final_text
  /\ ("resume_failed" \in {notifs[i] : i \in 1..Len(notifs)}
        \/ (pc \in {"finally", "done"} /\ ResumeFailed /\ ~crash_logged))
       => ~output_file.written

\* C25, its case: a registered, successful run whose file holds the result.
C25_Witness ==
  /\ pc = "done" /\ registry # <<>> /\ notifs = <<"success">>
  /\ output_file.written /\ output_file.text = "Done."

=============================================================================
